---- MODULE Spec2Model ----
(***************************************************************************)
(* A model of the string queue of queue.c: a singly linked chain of nodes  *)
(* (list_ele_t: value, next) owned by one queue_t (head, tail, size), and  *)
(* the operations q_new, q_free, q_insert_head, q_insert_tail,             *)
(* q_remove_head, q_size, q_reverse and q_sort.                            *)
(*                                                                         *)
(* The heap is explicit.  A node is an address in Nodes; `allocated` is    *)
(* the set of nodes that malloc returned and free has not yet taken back;  *)
(* `next` and `value` hold the two fields of every node.  A C string is a  *)
(* sequence of character codes; NoStr stands for a NULL char pointer.      *)
(* Every operation is one action that runs the whole function body.        *)
(***************************************************************************)
EXTENDS Integers, Sequences, FiniteSets, TLC

\* Number of node addresses the allocator can hand out.
MaxNodes == 3
\* Largest bufsize argument passed to q_remove_head.
MaxBuf == 4

NULL == 0
Nodes == 1..MaxNodes
Ptr == Nodes \cup {NULL}

\* A NULL char pointer (no C string holds the terminator as a character).
NoStr == <<0>>
\* The strings callers insert: "a2" and "A10".  "a2" comes first only when
\* letter case is ignored and the digits compare as the numbers 2 and 10.
Strings == { <<97, 50>>, <<65, 49, 48>> }

\* Width of size_t, for the unsigned expression bufsize - 1.  The model
\* takes the least width C allows; bufsize - 1 wraps the same way at any.
SizeBits == 16
SizeMod == 2 ^ SizeBits

VARIABLES
    qp,         \* TRUE when the caller's queue_t pointer q is not NULL
    head,       \* q->head
    tail,       \* q->tail
    size,       \* q->size
    next,       \* next[n]: the next field of node n
    value,      \* value[n]: the value field of node n
    allocated,  \* nodes obtained from malloc and not yet freed
    op,         \* name of the last operation called
    ret,        \* its return value: <<>> when none, <<1>> true, <<0>> false
    sp,         \* the caller's buffer after the last q_remove_head, else <<>>
    fault,      \* TRUE once an operation has trapped; the process is gone
    nullDeref,  \* TRUE when the last call wrote q->tail->next with q->tail == NULL
    oob,        \* TRUE when the last call wrote outside the caller's buffer
    live,       \* inserts that returned true minus removals that returned true
    fifo        \* record of a run q_new, q_insert_tail*, q_remove_head*

vars == <<qp, head, tail, size, next, value, allocated, op, ret, sp, fault,
          nullDeref, oob, live, fifo>>

----------------------------------------------------------------------------
(* The comparator.                                                         *)

IsDigit(c) == c >= 48 /\ c <= 57
ToUpper(c) == IF c >= 97 /\ c <= 122 THEN c - 32 ELSE c

RECURSIVE DigitRun(_)
\* Length of the run of digits that starts the string s.
DigitRun(s) ==
    IF s = <<>> \/ ~IsDigit(Head(s)) THEN 0 ELSE 1 + DigitRun(Tail(s))

RECURSIVE NumVal(_, _)
\* Numeric value of the first n characters of s, all of them digits.
NumVal(s, n) ==
    IF n = 0 THEN 0 ELSE NumVal(s, n - 1) * 10 + (s[n] - 48)

Drop(s, n) == SubSeq(s, n + 1, Len(s))

RECURSIVE strnatcasecmp(_, _)
\* Natural order, letter case ignored: runs of digits compare by numeric
\* value, every other character by its upper-case code.  -1, 0 or 1.
strnatcasecmp(a, b) ==
    IF a = <<>> /\ b = <<>> THEN 0
    ELSE IF a = <<>> THEN -1
    ELSE IF b = <<>> THEN 1
    ELSE IF IsDigit(Head(a)) /\ IsDigit(Head(b)) THEN
        LET na == DigitRun(a)
            nb == DigitRun(b)
            va == NumVal(a, na)
            vb == NumVal(b, nb)
        IN  IF va < vb THEN -1
            ELSE IF va > vb THEN 1
            ELSE strnatcasecmp(Drop(a, na), Drop(b, nb))
    ELSE IF ToUpper(Head(a)) < ToUpper(Head(b)) THEN -1
    ELSE IF ToUpper(Head(a)) > ToUpper(Head(b)) THEN 1
    ELSE strnatcasecmp(Tail(a), Tail(b))

\* __cmp_list_ele(x, y) on the nodes x and y, val being the value fields.
cmp_list_ele(val, x, y) ==
    IF val[x] = NoStr \/ val[y] = NoStr THEN
        IF val[x] = NoStr /\ val[y] = NoStr THEN 0
        ELSE IF val[x] = NoStr THEN 1
        ELSE -1
    ELSE strnatcasecmp(val[x], val[y])

----------------------------------------------------------------------------
(* Chains.                                                                 *)

RECURSIVE ChainFrom(_, _, _)
\* The nodes met by following nx from h, at most fuel of them.
ChainFrom(nx, h, fuel) ==
    IF h = NULL \/ fuel = 0 THEN <<>>
    ELSE <<h>> \o ChainFrom(nx, nx[h], fuel - 1)

RECURSIVE EndsWithin(_, _, _)
\* TRUE when following nx from h reaches NULL within fuel steps.
EndsWithin(nx, h, fuel) ==
    IF h = NULL THEN TRUE
    ELSE IF fuel = 0 THEN FALSE
    ELSE EndsWithin(nx, nx[h], fuel - 1)

Acyclic(nx, h) == EndsWithin(nx, h, MaxNodes)
ChainOf(nx, h) == ChainFrom(nx, h, MaxNodes + 1)
Range(s) == { s[i] : i \in 1..Len(s) }
Last(s) == s[Len(s)]
Rev(s) == [i \in 1..Len(s) |-> s[Len(s) + 1 - i]]

\* The queue's chain in the current state.
Chain == ChainOf(next, head)

\* The nodes some pointer of the queue leads to, from head or from tail.
Reached(nx, h, t) == Range(ChainOf(nx, h)) \cup Range(ChainOf(nx, t))

\* The field f (next or value) with the fields of the nodes that no pointer
\* leads to any more left out: no operation can read them again, so the
\* model does not keep them.  Such a node stays wherever it is in allocated.
Forget(f, nx, h, t, gone) ==
    [n \in Nodes |-> IF n \in Reached(nx, h, t) THEN f[n] ELSE gone]

---------------------------------------------------------------------------------------------------------------------------------------------------
(* Merging and sorting.  A result is the record [next, first, steps]: the  *)
(* next fields after the call, the node returned, and the number of loop   *)
(* iterations and calls the computation took.                              *)

\* Number of slots of the array arr of pending runs.
ArrLen == 32

RECURSIVE Log2Ceil(_)
\* The least k with 2^k >= n.
Log2Ceil(n) == IF n <= 1 THEN 0 ELSE 1 + Log2Ceil((n + 1) \div 2)

\* Steps a sort of n nodes may take: the ArrLen turns of the last for loop,
\* one turn of the consume loop and at most one of the carry loop for each
\* node, and the merges, which move each node once on each of at most
\* Log2Ceil(n) + 1 levels.
SortBound(n) == ArrLen + 2 * n + n * (Log2Ceil(n) + 1)

\* A loop that has taken StepCap steps is given up as one that does not
\* end: no loop on a chain the model can hold takes that many.
StepCap == SortBound(MaxNodes + 1) + 1
Hung(r) == r.steps >= StepCap

\* F(x), with x evaluated once, here, and not again wherever F uses it.
Once(x, F(_)) == CHOOSE y \in { F(v) : v \in {x} } : TRUE

\* nl->next = x, where nl = NULL stands for the local dummy node &_nl,
\* whose next field is kept in first.
SetNext(st, nl, x) ==
    IF nl = NULL THEN [st EXCEPT !.first = x]
    ELSE [st EXCEPT !.next[nl] = x]

\* nl->next = x in an iteration of the loop of __merge.
Link(st, nl, x) == [SetNext(st, nl, x) EXCEPT !.steps = @ + 1]

\* A merge that has moved MaxNodes nodes and finds one more is on a cycle:
\* it is given up, and so is the sort that called it.
GiveUp(st) == [st EXCEPT !.steps = StepCap]

RECURSIVE MergeLoopDrop(_, _, _, _, _)
\* MergeLoop with "&&" for "||": the loop ends when either chain does.
MergeLoopDrop(val, st, nl, l, t) ==
    IF l # NULL /\ t # NULL THEN
        IF st.steps >= MaxNodes THEN GiveUp(st)
        ELSE IF cmp_list_ele(val, l, t) <= 0
        THEN Once(Link(st, nl, l),
                  LAMBDA s1 : MergeLoopDrop(val, s1, l, s1.next[l], t))
        ELSE Once(Link(st, nl, t),
                  LAMBDA s1 : MergeLoopDrop(val, s1, t, l, s1.next[t]))
    ELSE SetNext(st, nl, NULL)

RECURSIVE MergeLoopTies(_, _, _, _, _)
\* MergeLoop with "<" for "<=": on a tie the node of t goes first.
MergeLoopTies(val, st, nl, l, t) ==
    IF l # NULL \/ t # NULL THEN
        IF st.steps >= MaxNodes THEN GiveUp(st)
        ELSE IF t = NULL \/ (l # NULL /\ cmp_list_ele(val, l, t) < 0)
        THEN Once(Link(st, nl, l),
                  LAMBDA s1 : MergeLoopTies(val, s1, l, s1.next[l], t))
        ELSE Once(Link(st, nl, t),
                  LAMBDA s1 : MergeLoopTies(val, s1, t, l, s1.next[t]))
    ELSE SetNext(st, nl, NULL)

RECURSIVE MergeLoop(_, _, _, _, _)
\* The while loop of __merge and the store that follows it.
MergeLoop(val, st, nl, l, t) ==
    IF l # NULL \/ t # NULL THEN
        IF st.steps >= MaxNodes THEN GiveUp(st)
        ELSE IF t = NULL \/ (l # NULL /\ cmp_list_ele(val, l, t) <= 0)
        THEN Once(Link(st, nl, l),
                  LAMBDA s1 : MergeLoop(val, s1, l, s1.next[l], t))
        ELSE Once(Link(st, nl, t),
                  LAMBDA s1 : MergeLoop(val, s1, t, l, s1.next[t]))
    ELSE SetNext(st, nl, NULL)

\* __merge(l, t) on the heap nx.
merge(val, nx, l, t) ==
    MergeLoop(val, [next |-> nx, first |-> NULL, steps |-> 0], NULL, l, t)

\* The state of the sort after result = __merge(result, arr[i]), the merge
\* having returned m; arr1 is arr after the iteration.
Merged(st, m, arr1) ==
    [next |-> m.next, arr |-> arr1, result |-> m.first, ok |-> st.ok,
     steps |-> st.steps + 1 + m.steps]

RECURSIVE CarryLoopKeep(_, _, _)
\* CarryLoop with the store arr[i] = NULL forgotten.
CarryLoopKeep(val, st, i) ==
    IF i < ArrLen /\ st.arr[i] # NULL /\ ~Hung(st)
    THEN Once(Merged(st, merge(val, st.next, st.result, st.arr[i]), st.arr),
              LAMBDA s1 : CarryLoopKeep(val, s1, i + 1))
    ELSE [next |-> st.next, arr |-> st.arr, result |-> st.result,
          ok |-> st.ok, steps |-> st.steps, i |-> i]

RECURSIVE CarryLoop(_, _, _)
\* The for loop that merges result with arr[0], arr[1], ... up to the first
\* empty slot.  st = [next, arr, result, ok, steps]; the result also
\* carries i.
CarryLoop(val, st, i) ==
    IF i < ArrLen /\ st.arr[i] # NULL /\ ~Hung(st)
    THEN Once(Merged(st, merge(val, st.next, st.result, st.arr[i]),
                     [st.arr EXCEPT ![i] = NULL]),
              LAMBDA s1 : CarryLoop(val, s1, i + 1))
    ELSE [next |-> st.next, arr |-> st.arr, result |-> st.result,
          ok |-> st.ok, steps |-> st.steps, i |-> i]

\* The end of an iteration of the while loop, the for loop having ended in
\* s2 and nxt being the node after the one consumed: if (i == 32) i--;
\* assert(arr[i] == NULL); arr[i] = result; result = next.
Store(s2, nxt) ==
    LET i == IF s2.i = ArrLen THEN s2.i - 1 ELSE s2.i
    IN  [next |-> s2.next,
         arr |-> [s2.arr EXCEPT ![i] = s2.result],
         result |-> nxt,
         ok |-> s2.ok /\ s2.arr[i] = NULL,
         steps |-> s2.steps]

\* One iteration of the while loop: detach the node result, carry it up the
\* slots and store the run in the first empty slot.
ConsumeOne(val, st) ==
    Once(CarryLoop(val,
                   [st EXCEPT !.next[st.result] = NULL, !.steps = @ + 1],
                   0),
         LAMBDA s2 : Store(s2, st.next[st.result]))

RECURSIVE ConsumeLoop(_, _)
\* while (result != NULL) { ... }
ConsumeLoop(val, st) ==
    IF st.result # NULL /\ ~Hung(st)
    THEN Once(ConsumeOne(val, st), LAMBDA s1 : ConsumeLoop(val, s1))
    ELSE st

\* One iteration of the last for loop: merge result with arr[i] when the
\* slot is occupied.
FinalOne(val, st, i) ==
    IF st.arr[i] # NULL
    THEN Merged(st, merge(val, st.next, st.result, st.arr[i]), st.arr)
    ELSE [st EXCEPT !.steps = @ + 1]

RECURSIVE FinalLoop(_, _, _)
\* The last for loop: merge result with every occupied slot, lowest first.
FinalLoop(val, st, i) ==
    IF i < ArrLen /\ ~Hung(st)
    THEN Once(FinalOne(val, st, i), LAMBDA s1 : FinalLoop(val, s1, i + 1))
    ELSE st

\* The state of __mergesort_bottomup(head) when its while loop begins.
SortStart(nx, h) ==
    [next |-> nx, arr |-> [i \in 0..(ArrLen - 1) |-> NULL],
     result |-> h, ok |-> TRUE, steps |-> 0]

\* __mergesort_bottomup(head) on the heap nx: [next, first, ok, steps], ok
\* FALSE when the assert of the loop failed.
mergesort_bottomup(val, nx, h) ==
    Once(ConsumeLoop(val, SortStart(nx, h)),
         LAMBDA s1 :
             Once(FinalLoop(val, s1, 0),
                  LAMBDA s2 : [next |-> s2.next, first |-> s2.result,
                               ok |-> s2.ok, steps |-> s2.steps]))

RECURSIVE SplitLoop(_, _, _, _)
\* The slow/fast walk of __mergesort, begun after k steps: slow when the
\* walk ends, and the steps taken by then.
SplitLoop(nx, slow, fast, k) ==
    IF fast # NULL /\ nx[fast] # NULL /\ k < StepCap
    THEN SplitLoop(nx, nx[slow], nx[nx[fast]], k + 1)
    ELSE [slow |-> slow, steps |-> k]

RECURSIVE mergesort_fast_l(_, _, _, _)
\* mergesort with the walk begun at fast = l.
mergesort_fast_l(val, nx, l, k) ==
    IF k >= StepCap THEN [next |-> nx, first |-> l, steps |-> k]
    ELSE IF l = NULL \/ nx[l] = NULL
    THEN [next |-> nx, first |-> l, steps |-> k + 1]
    ELSE
        LET sl == SplitLoop(nx, l, l, k + 1)
            t == nx[sl.slow]
            a == mergesort_fast_l(val, [nx EXCEPT ![sl.slow] = NULL], l,
                                  sl.steps)
            b == mergesort_fast_l(val, a.next, t, a.steps)
            m == merge(val, b.next, a.first, b.first)
        IN  [next |-> m.next, first |-> m.first, steps |-> b.steps + m.steps]

RECURSIVE mergesort(_, _, _, _)
\* __mergesort(l) on the heap nx, top-down, called after k steps.
mergesort(val, nx, l, k) ==
    IF k >= StepCap THEN [next |-> nx, first |-> l, steps |-> k]
    ELSE IF l = NULL \/ nx[l] = NULL
    THEN [next |-> nx, first |-> l, steps |-> k + 1]
    ELSE
        LET sl == SplitLoop(nx, l, nx[l], k + 1)
            t == nx[sl.slow]
            a == mergesort(val, [nx EXCEPT ![sl.slow] = NULL], l, sl.steps)
            b == mergesort(val, a.next, t, a.steps)
            m == merge(val, b.next, a.first, b.first)
        IN  [next |-> m.next, first |-> m.first, steps |-> b.steps + m.steps]

-----
(* The caller's side of a call.                                            *)

Bool(b) == IF b THEN <<1>> ELSE <<0>>
NoFifo == [phase |-> "off", ins |-> <<>>, outs |-> <<>>]
NewFifo == [phase |-> "ins", ins |-> <<>>, outs |-> <<>>]

\* The C string held by the buffer b: its characters before the terminator.
RECURSIVE CStr(_)
CStr(b) == IF b = <<>> \/ Head(b) = 0 THEN <<>> ELSE <<Head(b)>> \o CStr(Tail(b))

\* The n characters strncpy(dst, src, n) writes: src, then zeros up to n.
\* strncpy without its bound: strcpy.
strcpy(src, n) == src

strncpy(src, n) == [i \in 1..n |-> IF i <= Len(src) THEN src[i] ELSE 0]

\* Length of the longest string a caller inserts.
MaxStrLen ==
    CHOOSE n \in { Len(s) : s \in Strings } : \A s \in Strings : Len(s) <= n

Init ==
    /\ qp \in BOOLEAN
    /\ head = NULL
    /\ tail = NULL
    /\ size = 0
    /\ next = [n \in Nodes |-> NULL]
    /\ value = [n \in Nodes |-> NoStr]
    /\ allocated = {}
    /\ op = "q_new"
    /\ ret = Bool(qp)
    /\ sp = <<>>
    /\ fault = FALSE
    /\ nullDeref = FALSE
    /\ oob = FALSE
    /\ live = 0
    /\ fifo = IF qp THEN NewFifo ELSE NoFifo

\* q_new(), called when the caller holds no queue; ok is malloc's success.
q_new ==
    /\ ~fault
    /\ ~qp
    /\ \E ok \in BOOLEAN :
        /\ qp' = ok
        /\ ret' = Bool(ok)
        /\ fifo' = IF ok THEN NewFifo ELSE NoFifo
    /\ head' = NULL
    /\ tail' = NULL
    /\ size' = 0
    /\ live' = 0
    /\ op' = "q_new"
    /\ sp' = <<>>
    /\ nullDeref' = FALSE
    /\ oob' = FALSE
    /\ UNCHANGED <<next, value, allocated, fault>>

\* free(e) for every node e of the sequence c: the fields are gone.
FreeAll(f, c, gone) == [n \in Nodes |-> IF n \in Range(c) THEN gone ELSE f[n]]

\* q_free(q); the caller drops its pointer afterwards.
q_free ==
    /\ ~fault
    /\ IF qp THEN
            /\ allocated' = allocated \ Range(Chain)
            /\ next' = FreeAll(next, Chain, NULL)
            /\ value' = FreeAll(value, Chain, NoStr)
       ELSE UNCHANGED <<allocated, next, value>>
    /\ qp' = FALSE
    /\ head' = NULL
    /\ tail' = NULL
    /\ size' = 0
    /\ op' = "q_free"
    /\ ret' = <<>>
    /\ sp' = <<>>
    /\ fifo' = NoFifo
    /\ nullDeref' = FALSE
    /\ oob' = FALSE
    /\ UNCHANGED <<fault, live>>

\* Refuse with the buffer ended by a terminator before the return.
RefuseWrites(name) ==
    /\ op' = name
    /\ ret' = Bool(FALSE)
    /\ sp' = <<0>>
    /\ fifo' = NoFifo
    /\ nullDeref' = FALSE
    /\ oob' = FALSE
    /\ UNCHANGED <<qp, head, tail, size, next, value, allocated, fault, live>>

\* A call that returns false and changes nothing of the queue or the heap.
Refuse(name) ==
    /\ op' = name
    /\ ret' = Bool(FALSE)
    /\ sp' = <<>>
    /\ fifo' = NoFifo
    /\ nullDeref' = FALSE
    /\ oob' = FALSE
    /\ UNCHANGED <<qp, head, tail, size, next, value, allocated, fault, live>>

\* Abandon with the free(newh) forgotten.
AbandonLeak(name, newh) ==
    /\ op' = name
    /\ ret' = Bool(FALSE)
    /\ sp' = <<>>
    /\ fifo' = NoFifo
    /\ nullDeref' = FALSE
    /\ oob' = FALSE
    /\ allocated' = allocated \cup {newh}
    /\ UNCHANGED <<qp, head, tail, size, next, value, fault, live>>

\* The path of an insert on which strdup fails: the node newh was obtained,
\* is freed again, and the call returns false.
Abandon(name, newh) ==
    /\ op' = name
    /\ ret' = Bool(FALSE)
    /\ sp' = <<>>
    /\ fifo' = NoFifo
    /\ nullDeref' = FALSE
    /\ oob' = FALSE
    /\ allocated' = (allocated \cup {newh}) \ {newh}
    /\ UNCHANGED <<qp, head, tail, size, next, value, fault, live>>

\* q_insert_head(q, s).  mem tells which allocation fails, if any; newh is
\* the address malloc returns.
q_insert_head ==
    /\ ~fault
    /\ \E mem \in {"ok", "node_fail", "str_fail"} :
        IF ~qp \/ mem = "node_fail" THEN Refuse("q_insert_head")
        ELSE IF mem = "str_fail"
        THEN \E newh \in Nodes \ allocated : Abandon("q_insert_head", newh)
        ELSE \E s \in Strings, newh \in Nodes \ allocated :
            /\ allocated' = allocated \cup {newh}
            /\ value' = [value EXCEPT ![newh] = s]
            /\ next' = [next EXCEPT ![newh] = head]
            /\ head' = newh
            /\ tail' = IF tail = NULL THEN newh ELSE tail
            /\ size' = size + 1
            /\ live' = live + 1
            /\ op' = "q_insert_head"
            /\ ret' = Bool(TRUE)
            /\ sp' = <<>>
            /\ fifo' = NoFifo
            /\ nullDeref' = FALSE
            /\ oob' = FALSE
            /\ UNCHANGED <<qp, fault>>

\* The bookkeeping of a q_insert_tail(q, s) call whose allocations succeed.
TailFifo(s) ==
    IF fifo.phase = "ins" THEN [fifo EXCEPT !.ins = Append(@, s)] ELSE NoFifo

\* q_insert_tail(q, s).  With q->tail == NULL the store q->tail->next = newh
\* goes through a null pointer: either it traps (trap) and the call never
\* returns, q->head already written, or the store lands outside the queue
\* and the call goes on.
q_insert_tail ==
    /\ ~fault
    /\ \E mem \in {"ok", "node_fail", "str_fail"} :
        IF ~qp \/ mem = "node_fail" THEN Refuse("q_insert_tail")
        ELSE IF mem = "str_fail"
        THEN \E newh \in Nodes \ allocated : Abandon("q_insert_tail", newh)
        ELSE \E s \in Strings, newh \in Nodes \ allocated,
                trap \in (IF tail = NULL THEN BOOLEAN ELSE {FALSE}) :
            LET head1 == IF head = NULL THEN newh ELSE head
                value1 == [value EXCEPT ![newh] = s]
                next1 == [next EXCEPT ![newh] = NULL]
                next2 == IF tail = NULL THEN next1
                         ELSE [next1 EXCEPT ![tail] = newh]
            IN  /\ allocated' = allocated \cup {newh}
                /\ head' = head1
                /\ op' = "q_insert_tail"
                /\ sp' = <<>>
                /\ fifo' = TailFifo(s)
                /\ nullDeref' = (tail = NULL)
                /\ IF trap THEN
                        /\ next' = next1
                        /\ value' = value1
                        /\ fault' = TRUE
                        /\ ret' = <<>>
                        /\ UNCHANGED <<tail, size, live>>
                   ELSE
                        /\ next' = Forget(next2, next2, head1, newh, NULL)
                        /\ value' = Forget(value1, next2, head1, newh, NoStr)
                        /\ tail' = newh
                        /\ size' = size + 1
                        /\ live' = live + 1
                        /\ ret' = Bool(TRUE)
                        /\ UNCHANGED fault
                /\ oob' = FALSE
                /\ UNCHANGED qp

\* The bookkeeping of a q_remove_head call that hands back the string out.
HeadFifo(out) ==
    IF fifo.phase \in {"ins", "rem"} /\ Len(fifo.outs) < Len(fifo.ins)
    THEN [fifo EXCEPT !.phase = "rem", !.outs = Append(@, out)]
    ELSE NoFifo

\* q->tail after the removal of the node h: if (q->head == q->tail)
\* q->tail = NULL.
tail_after_remove(h, t) == IF h = t THEN NULL ELSE t

\* The body of q_remove_head(q, sp, bufsize) on a queue that is not empty.
\* hasBuf is sp != NULL; the caller's buffer holds bufsize characters.  n is
\* the unsigned bufsize - 1: with n at least bufsize the copy runs past the
\* end of the buffer, and the model stops the process there.
remove_head(hasBuf, bufsize) ==
    LET n == (bufsize - 1) % SizeMod
        copy == value[head] # NoStr /\ hasBuf
    IN  /\ op' = "q_remove_head"
        /\ IF copy /\ n >= bufsize THEN
                /\ oob' = TRUE
                /\ fault' = TRUE
                /\ ret' = <<>>
                /\ sp' = <<>>
                /\ fifo' = NoFifo
                /\ UNCHANGED <<head, tail, size, next, value, allocated, live>>
           ELSE
                /\ sp' = IF copy
                         THEN Append(strncpy(value[head], n), 0)
                         ELSE <<>>
                /\ fifo' = IF copy /\ bufsize > MaxStrLen
                           THEN HeadFifo(CStr(sp'))
                           ELSE NoFifo
                /\ tail' = tail_after_remove(head, tail)
                /\ head' = next[head]
                /\ allocated' = allocated \ {head}
                /\ value' = [value EXCEPT ![head] = NoStr]
                /\ next' = [next EXCEPT ![head] = NULL]
                /\ size' = size - 1
                /\ live' = live - 1
                /\ ret' = Bool(TRUE)
                /\ oob' = FALSE
                /\ UNCHANGED fault
        /\ nullDeref' = FALSE
        /\ UNCHANGED qp

\* q_remove_head(q, sp, bufsize).
q_remove_head ==
    /\ ~fault
    /\ IF ~qp \/ head = NULL THEN Refuse("q_remove_head")
       ELSE \E hasBuf \in BOOLEAN :
            \E bufsize \in (IF hasBuf THEN 0..MaxBuf ELSE {0}) :
                remove_head(hasBuf, bufsize)

\* The value q_size(q) returns in the current state.
q_size == IF ~qp \/ head = NULL THEN 0 ELSE size

\* A call of q_size(q).
q_size_call ==
    /\ ~fault
    /\ op' = "q_size"
    /\ ret' = <<q_size>>
    /\ sp' = <<>>
    /\ fifo' = NoFifo
    /\ nullDeref' = FALSE
    /\ oob' = FALSE
    /\ UNCHANGED <<qp, head, tail, size, next, value, allocated, fault, live>>

\* ReverseLoop with ne read after e->next was overwritten.
ReverseLoopStale(nx, pe, e, k) ==
    IF e # NULL THEN [next |-> [nx EXCEPT ![e] = pe], pe |-> e, steps |-> k + 1]
    ELSE [next |-> nx, pe |-> pe, steps |-> k]

RECURSIVE ReverseLoop(_, _, _, _)
\* The while loop of q_reverse, after k iterations: [next, pe, steps] when
\* e reaches NULL.
ReverseLoop(nx, pe, e, k) ==
    IF e # NULL /\ k < StepCap
    THEN ReverseLoop([nx EXCEPT ![e] = pe], e, nx[e], k + 1)
    ELSE [next |-> nx, pe |-> pe, steps |-> k]

\* The body of q_reverse(q) on a queue [head, tail, next]: the queue after,
\* and the iterations of the loop.
reverse_body(qu) ==
    IF qu.head = NULL
    THEN [head |-> qu.head, tail |-> qu.tail, next |-> qu.next, steps |-> 0]
    ELSE Once(ReverseLoop(qu.next, NULL, qu.head, 0),
              LAMBDA r : [head |-> r.pe, tail |-> qu.head, next |-> r.next,
                          steps |-> r.steps])

\* q_reverse(q).
q_reverse ==
    /\ ~fault
    /\ IF ~qp THEN UNCHANGED <<head, tail, next, fault>>
       ELSE \E r \in {reverse_body([head |-> head, tail |-> tail,
                                    next |-> next])} :
                /\ next' = r.next
                /\ tail' = r.tail
                /\ head' = r.head
                /\ fault' = Hung(r)
    /\ op' = "q_reverse"
    /\ ret' = <<>>
    /\ sp' = <<>>
    /\ fifo' = NoFifo
    /\ nullDeref' = FALSE
    /\ oob' = FALSE
    /\ UNCHANGED <<qp, size, value, allocated, live>>

\* The body of q_sort(q) on a queue [head, tail, next]: the queue after,
\* ok, FALSE when the assert of the sort failed, and the steps of the sort.
sort_body(val, qu) ==
    IF qu.head = NULL \/ qu.head = qu.tail
    THEN [head |-> qu.head, tail |-> qu.tail, next |-> qu.next, ok |-> TRUE,
          steps |-> 0]
    ELSE Once(mergesort_bottomup(val, qu.next, qu.head),
              LAMBDA r : [head |-> r.first, tail |-> qu.tail,
                          next |-> r.next, ok |-> r.ok, steps |-> r.steps])

\* q_sort(q).
q_sort ==
    /\ ~fault
    /\ IF ~qp THEN UNCHANGED <<head, tail, next, fault>>
       ELSE \E r \in {sort_body(value, [head |-> head, tail |-> tail,
                                        next |-> next])} :
                /\ next' = r.next
                /\ head' = r.head
                /\ tail' = r.tail
                /\ fault' = (~r.ok \/ Hung(r))
    /\ op' = "q_sort"
    /\ ret' = <<>>
    /\ sp' = <<>>
    /\ fifo' = NoFifo
    /\ nullDeref' = FALSE
    /\ oob' = FALSE
    /\ UNCHANGED <<qp, size, value, allocated, live>>

Next ==
    \/ q_new
    \/ q_free
    \/ q_insert_head
    \/ q_insert_tail
    \/ q_remove_head
    \/ q_size_call
    \/ q_reverse
    \/ q_sort

Spec == Init /\ [][Next]_vars

----------------------------------------------------------------------------
(* The static functions __merge, __mergesort and __mergesort_bottomup on   *)
(* their own: every chain of at most MaxNodes nodes as the input, one call *)
(* as the step.                                                            *)

\* The sequences of distinct nodes.
Chains ==
    { c \in UNION { [1..k -> Nodes] : k \in 0..MaxNodes } :
        \A i, j \in 1..Len(c) : c[i] = c[j] => i = j }

\* The next fields of the nodes linked in the order of c.
LinkOf(c) ==
    [n \in Nodes |->
        IF \E i \in 1..(Len(c) - 1) : c[i] = n
        THEN c[(CHOOSE i \in 1..(Len(c) - 1) : c[i] = n) + 1]
        ELSE NULL]

\* The heap nx with the chain c cut after its k-th node.
CutAt(nx, c, k) ==
    IF k = 0 \/ k > Len(c) THEN nx ELSE [nx EXCEPT ![c[k]] = NULL]

\* A queue that holds the chain c, as inserts with the strings vs build it.
SortInit ==
    \E c \in Chains, vs \in [Nodes -> Strings] :
        /\ qp = TRUE
        /\ head = IF c = <<>> THEN NULL ELSE c[1]
        /\ tail = IF c = <<>> THEN NULL ELSE Last(c)
        /\ size = Len(c)
        /\ live = Len(c)
        /\ next = LinkOf(c)
        /\ value = [n \in Nodes |-> IF n \in Range(c) THEN vs[n] ELSE NoStr]
        /\ allocated = Range(c)
        /\ op = "chain"
        /\ ret = <<>>
        /\ sp = <<>>
        /\ fault = FALSE
        /\ nullDeref = FALSE
        /\ oob = FALSE
        /\ fifo = NoFifo

\* The two sorted chains a call of __merge is given: the chain cut after
\* its k-th node, the first part as l and the second as t, or the other
\* way round when swap.
MergeArgs(k, swap) ==
    LET a == SubSeq(Chain, 1, k)
        b == SubSeq(Chain, k + 1, Len(Chain))
    IN  IF swap THEN [l |-> b, t |-> a] ELSE [l |-> a, t |-> b]

\* The first node of the chain c.
First(c) == IF c = <<>> THEN NULL ELSE c[1]

\* A call of __merge on two sorted chains; the result becomes the chain.
MergeCall(k, swap) ==
    /\ op = "chain"
    /\ Len(Chain) >= k
    /\ \E arg \in {MergeArgs(k, swap)} :
        /\ \A i \in 1..(Len(arg.l) - 1) :
               cmp_list_ele(value, arg.l[i], arg.l[i + 1]) <= 0
        /\ \A i \in 1..(Len(arg.t) - 1) :
               cmp_list_ele(value, arg.t[i], arg.t[i + 1]) <= 0
        /\ \E m \in {merge(value, CutAt(next, Chain, k),
                           First(arg.l), First(arg.t))} :
            /\ head' = m.first
            /\ next' = m.next
            /\ fault' = Hung(m)
    /\ op' = "merge"
    /\ UNCHANGED <<qp, tail, size, value, allocated, ret, sp, nullDeref,
                   oob, live, fifo>>

\* A call of __mergesort_bottomup on the chain.
BottomUpCall ==
    /\ op = "chain"
    /\ \E r \in {mergesort_bottomup(value, next, head)} :
        /\ head' = r.first
        /\ next' = r.next
        /\ fault' = (~r.ok \/ Hung(r))
    /\ op' = "mergesort_bottomup"
    /\ UNCHANGED <<qp, tail, size, value, allocated, ret, sp, nullDeref,
                   oob, live, fifo>>

\* A call of __mergesort on the chain.
TopDownCall ==
    /\ op = "chain"
    /\ \E r \in {mergesort(value, next, head, 0)} :
        /\ head' = r.first
        /\ next' = r.next
        /\ fault' = Hung(r)
    /\ op' = "mergesort"
    /\ UNCHANGED <<qp, tail, size, value, allocated, ret, sp, nullDeref,
                   oob, live, fifo>>

SortNext ==
    \/ \E k \in 0..MaxNodes, swap \in BOOLEAN : MergeCall(k, swap)
    \/ BottomUpCall
    \/ TopDownCall

SortSpec == SortInit /\ [][SortNext]_vars

----------------------------------------------------------------------------
(* Sanity of the heap model: no operation reads or writes a freed node.    *)

TypeOK ==
    /\ qp \in BOOLEAN
    /\ head \in Ptr /\ tail \in Ptr
    /\ size \in Nat
    /\ allocated \subseteq Nodes
    /\ fault \in BOOLEAN

HeapSane ==
    /\ Acyclic(next, head)
    /\ Range(Chain) \subseteq allocated
    /\ tail # NULL => tail \in allocated

----------------------------------------------------------------------------
(* The properties.                                                         *)

\* A queue exists and every call so far has returned.
Usable == qp /\ ~fault

\* The nodes of c are in non-decreasing order of value.
Sorted(val, c) ==
    \A i \in 1..(Len(c) - 1) : cmp_list_ele(val, c[i], c[i + 1]) <= 0

\* Node x comes before node y in the sequence c.
Before(c, x, y) ==
    \E i, j \in 1..Len(c) : i < j /\ c[i] = x /\ c[j] = y

\* C1: after every operation on a non-empty queue the chain from head is
\* acyclic, has exactly size nodes, ends at the node tail refers to, and
\* tail->next is NULL (so after q_sort tail is the new last node).
C1_ChainEndsAtTail ==
    (Usable /\ head # NULL) =>
        /\ Acyclic(next, head)
        /\ Len(Chain) = size
        /\ tail # NULL
        /\ tail = Last(Chain)
        /\ next[tail] = NULL

\* C2: q_insert_tail on an empty queue, both allocations succeeding, writes
\* through no absent tail, returns true, and leaves head and tail on the new
\* node, size 1, the node's next NULL.
C2_InsertTailOnEmpty ==
    [][(/\ Usable /\ head = NULL /\ tail = NULL /\ size = 0
        /\ q_insert_tail
        /\ allocated' # allocated)
       => (/\ ~fault'
           /\ ~nullDeref'
           /\ ret' = <<1>>
           /\ head' # NULL
           /\ tail' = head'
           /\ size' = 1
           /\ next'[head'] = NULL)]_vars

\* C3: in every state between two calls, head == NULL, tail == NULL and
\* size == 0 are all true or all false.
C3_EmptyIff ==
    Usable => /\ (head = NULL) <=> (tail = NULL)
              /\ (tail = NULL) <=> (size = 0)

\* C4: when q_sort has returned, the values along the chain from head are
\* in non-decreasing order.
C4_SortedAfterSort ==
    (Usable /\ op = "q_sort") => Sorted(value, Chain)

\* C5: q_sort is stable: two nodes that compare equal keep their order.
C5_SortStable ==
    [][(Usable /\ q_sort) =>
        \A i, j \in 1..Len(Chain) :
            (i < j /\ cmp_list_ele(value, Chain[i], Chain[j]) = 0)
                => Before(Chain', Chain[i], Chain[j])]_vars

\* C6: from a new queue, q_insert_tail calls whose allocations succeed and
\* then as many q_remove_head calls all return true, the strings come back
\* in the order they went in, and the queue is empty at the end.
C6_FifoRoundTrip ==
    fifo.phase # "off" =>
        /\ ~fault
        /\ op \in {"q_insert_tail", "q_remove_head"} => ret = <<1>>
        /\ Len(fifo.outs) <= Len(fifo.ins)
        /\ fifo.outs = SubSeq(fifo.ins, 1, Len(fifo.outs))
        /\ (fifo.phase = "rem" /\ Len(fifo.outs) = Len(fifo.ins))
              => (head = NULL /\ tail = NULL /\ size = 0)

\* C7: q_size returns the number of inserts that returned true minus the
\* number of removals that returned true.
C7_SizeCountsInserts ==
    Usable => q_size = live

\* C8: every node that is not released can be reached from head (so q_free
\* releases every node an insert created and no removal released).
C8_NoLeak ==
    allocated \subseteq Range(Chain)

\* C9: q_sort is idempotent: a q_sort right after a q_sort leaves the order
\* of the nodes as it is.
C9_SortIdempotent ==
    [][(Usable /\ op = "q_sort" /\ q_sort) => Chain' = Chain]_vars

\* C10: q_reverse yields the reversed order of the nodes, head on the former
\* last node and tail on the former first node, and a second q_reverse
\* restores the original order.
C10_ReverseInvolution ==
    [][(Usable /\ q_reverse) =>
        LET again == reverse_body([head |-> head', tail |-> tail',
                                   next |-> next'])
        IN  /\ Chain' = Rev(Chain)
            /\ Chain # <<>> => (head' = Last(Chain) /\ tail' = Chain[1])
            /\ ChainOf(again.next, again.head) = Chain]_vars

\* A q_reverse has just run on a chain of at least three nodes.
C10_Witness ==
    Usable /\ op = "q_reverse" /\ Len(Chain) >= 3

\* C11: q_reverse and q_sort create and destroy no node: the nodes reachable
\* from head, the value of each node and the size field are after the call
\* what they were before it.
C11_NoNodeCreatedOrDestroyed ==
    [][(Usable /\ op' \in {"q_reverse", "q_sort"} /\ (q_reverse \/ q_sort)) =>
        /\ Range(Chain') = Range(Chain)
        /\ Len(Chain') = Len(Chain)
        /\ value' = value
        /\ size' = size
        /\ allocated' = allocated
        /\ qp' = qp]_vars

\* A q_sort has just reordered a chain of at least three nodes.
C11_Witness ==
    Usable /\ op = "q_sort" /\ Len(Chain) >= 3 /\ tail # Last(Chain)

Min(a, b) == IF a <= b THEN a ELSE b

\* C12: q_remove_head on a queue that is not empty, with a buffer of c >= 1
\* characters, leaves in the buffer the first min(len, c - 1) characters of
\* the head's value and a terminator after them; with or without a buffer
\* it releases the node and its value, moves head to the next node and
\* takes one off size.
C12_RemoveHeadCopies ==
    [][\A c \in 1..MaxBuf : \A hasBuf \in BOOLEAN :
        (/\ Usable /\ head # NULL
         /\ op' = "q_remove_head"
         /\ remove_head(hasBuf, c)) =>
            LET v == value[head]
                k == Min(Len(v), c - 1)
            IN  /\ ret' = <<1>>
                /\ (hasBuf /\ v # NoStr) =>
                       /\ Len(sp') = c
                       /\ SubSeq(sp', 1, k) = SubSeq(v, 1, k)
                       /\ sp'[k + 1] = 0
                /\ head \notin allocated'
                /\ value'[head] = NoStr
                /\ head' = next[head]
                /\ size' = size - 1]_vars

\* A q_remove_head has cut the value "A10" down to a buffer of three
\* characters.
C12_Witness ==
    Usable /\ op = "q_remove_head" /\ ret = <<1>> /\ sp = <<65, 49, 0>>

\* C13: an insert whose allocation of the node or of the string fails
\* returns false and leaves head, tail, size and the chain as they were,
\* and no node stays allocated that was not before.
C13_InsertFailureLeavesQueue ==
    [][(/\ Usable
        /\ ret' = <<0>>
        /\ \/ op' = "q_insert_head" /\ q_insert_head
           \/ op' = "q_insert_tail" /\ q_insert_tail) =>
        /\ head' = head
        /\ tail' = tail
        /\ size' = size
        /\ next' = next
        /\ value' = value
        /\ Chain' = Chain
        /\ allocated' = allocated]_vars

\* An insert at the tail of a queue that is not empty has just failed.
C13_Witness ==
    Usable /\ op = "q_insert_tail" /\ ret = <<0>> /\ head # NULL

\* C14: q_remove_head on an empty or absent queue returns false, changes
\* nothing of the queue, writes nothing to the buffer, and q_size is 0
\* after it as before.
C14_RemoveOnEmptyRefused ==
    [][(~fault /\ q_size = 0 /\ op' = "q_remove_head" /\ q_remove_head) =>
        /\ ret' = <<0>>
        /\ sp' = <<>>
        /\ q_size' = 0
        /\ UNCHANGED <<qp, head, tail, size, next, value, allocated>>]_vars

\* A q_remove_head on an empty queue has just returned.
C14_Witness ==
    Usable /\ op = "q_remove_head" /\ ret = <<0>> /\ head = NULL

\* Steps a top-down sort of n nodes may take: at most 2n calls, and on each
\* of at most Log2Ceil(n) levels at most n steps of the walks and n of the
\* merges.
TopDownBound(n) == 1 + 2 * n + 2 * n * Log2Ceil(n)

\* C15: every operation ends in every reachable state: the walks of q_free
\* and q_reverse take as many steps as the chain has nodes, and the loops
\* and calls of the bottom-up and of the top-down sort take a number of
\* steps bounded by a function of that length.
C15_OperationsTerminate ==
    Usable =>
        LET n == Len(Chain)
            r == reverse_body([head |-> head, tail |-> tail, next |-> next])
            bu == mergesort_bottomup(value, next, head)
            td == mergesort(value, next, head, 0)
        IN  /\ Acyclic(next, head)
            /\ n <= MaxNodes
            /\ r.steps = n
            /\ ~Hung(bu) /\ bu.steps <= SortBound(n)
            /\ ~Hung(td) /\ td.steps <= TopDownBound(n)

\* A chain of at least three nodes on which the top-down sort walks, calls
\* itself and merges.
C15_Witness ==
    /\ Usable
    /\ Len(Chain) >= 3
    /\ mergesort(value, next, head, 0).steps > 2 * Len(Chain)

\* C16: the top-down __mergesort and the bottom-up __mergesort_bottomup
\* return the same nodes in the same order for every chain.
C16_SortsAgree ==
    Usable =>
        LET bu == mergesort_bottomup(value, next, head)
            td == mergesort(value, next, head, 0)
        IN  ChainOf(td.next, td.first) = ChainOf(bu.next, bu.first)

\* The claim about __merge for the sorted chains a and b and the chain
\* first on the heap nx the call returned.
MergeRight(val, nx, first, a, b) ==
    LET c == ChainOf(nx, first)
    IN  /\ EndsWithin(nx, first, Len(a) + Len(b))
        /\ Sorted(val, c)
        /\ Len(c) = Len(a) + Len(b)
        /\ Range(c) = Range(a) \cup Range(b)
        /\ \A i, j \in 1..Len(a) : i < j => Before(c, a[i], a[j])
        /\ \A i, j \in 1..Len(b) : i < j => Before(c, b[i], b[j])
        /\ \A i \in 1..Len(a) : \A j \in 1..Len(b) :
               cmp_list_ele(val, a[i], b[j]) = 0 => Before(c, a[i], b[j])

\* C17: __merge(a, b) on two sorted chains with no node in common, either
\* of them possibly empty, returns one sorted chain that ends in NULL, holds
\* exactly the nodes of a and b, keeps the order of the nodes of a and of
\* those of b, and puts a node of a before a node of b of equal value.
C17_MergeKeepsOrder ==
    [][\A k \in 0..MaxNodes, swap \in BOOLEAN :
        MergeCall(k, swap) =>
            /\ ~fault'
            /\ MergeRight(value, next', head',
                          MergeArgs(k, swap).l, MergeArgs(k, swap).t)]_vars

\* A merge has returned a chain of three nodes that begins with two nodes
\* of equal value.
C17_Witness ==
    /\ op = "merge"
    /\ Len(Chain) >= 3
    /\ cmp_list_ele(value, Chain[1], Chain[2]) = 0
    /\ cmp_list_ele(value, Chain[2], Chain[3]) < 0

RECURSIVE Bit(_, _)
\* The i-th binary digit of k.
Bit(k, i) ==
    IF k = 0 THEN 0 ELSE IF i = 0 THEN k % 2 ELSE Bit(k \div 2, i - 1)

RECURSIVE SlotNodes(_, _)
\* The nodes of the chains in the slots i, i + 1, ... of st.arr.
SlotNodes(st, i) ==
    IF i >= ArrLen THEN <<>>
    ELSE IF st.arr[i] = NULL THEN SlotNodes(st, i + 1)
    ELSE ChainOf(st.next, st.arr[i]) \o SlotNodes(st, i + 1)

\* The claim about the slots in the state st of the sort, k nodes of the
\* chain input consumed.
SlotsRight(val, st, k, input) ==
    /\ \A i \in 0..(ArrLen - 1) :
          IF Bit(k, i) = 1
          THEN LET c == ChainOf(st.next, st.arr[i])
               IN  /\ st.arr[i] # NULL
                   /\ Len(c) = 2 ^ i
                   /\ EndsWithin(st.next, st.arr[i], 2 ^ i)
                   /\ Sorted(val, c)
          ELSE st.arr[i] = NULL
    /\ LET all == SlotNodes(st, 0) \o ChainOf(st.next, st.result)
       IN  /\ Len(all) = Len(input)
           /\ Range(all) = Range(input)

RECURSIVE ConsumeRight(_, _, _, _)
\* SlotsRight at the end of every iteration of the consume loop begun in st
\* with k nodes consumed.
ConsumeRight(val, st, k, input) ==
    IF st.result = NULL THEN TRUE
    ELSE LET s1 == ConsumeOne(val, st)
         IN  /\ SlotsRight(val, s1, k + 1, input)
             /\ ConsumeRight(val, s1, k + 1, input)

\* C18: in the bottom-up sort, at the end of every iteration of the loop
\* that consumes one node, each slot arr[i] is empty or holds a sorted
\* chain of exactly 2^i nodes, the occupied slots are the binary digits of
\* the number of nodes consumed, and the slots and the chain not yet
\* consumed hold every node of the input exactly once.
C18_SlotsAreBinary ==
    [][BottomUpCall =>
        /\ ~fault'
        /\ ConsumeRight(value, SortStart(next, head), 0, Chain)]_vars

\* The bottom-up sort has returned a chain of at least three nodes whose
\* first node was not the first before: a node was carried from slot 0 to
\* slot 1 and merged there.
C18_Witness ==
    /\ op = "mergesort_bottomup"
    /\ Len(Chain) >= 3
    /\ head # tail
    /\ next[tail] # NULL

C20_NoWriteOutsideBuffer ==
    ~oob

====
